---- MODULE Spec2Model ----
(***************************************************************************)
(* A model of the chef-client installer plugin:                            *)
(*   chef_client.py  - sudo helpers, version reconciliation, install_chef, *)
(*                     run_chef and the set_up_chef_client decorator       *)
(*   tasks.py        - the five celery tasks install/start/stop/restart/   *)
(*                     uninstall                                           *)
(* Strings whose characters the code inspects (version strings, attribute  *)
(* JSON) are sequences of one-character strings.                           *)
(***************************************************************************)
EXTENDS Integers, Sequences, FiniteSets, TLC

(***************************************************************************)
(* equal_versions: re.search(r'(\d+\.\d+\.\d+)', s) and the comparison.    *)
(***************************************************************************)

Digits == {"0", "1", "2", "3", "4", "5", "6", "7", "8", "9"}

\* The first index at or after i that does not hold a digit (Len(s)+1 when
\* the digits run to the end): where a greedy \d+ started at i stops.
RECURSIVE DigitRunEnd(_, _)
DigitRunEnd(s, i) ==
    IF i <= Len(s) /\ s[i] \in Digits THEN DigitRunEnd(s, i + 1) ELSE i

\* The same pattern with a lazy last group, \d+\.\d+\.\d+?, which stops after
\* one digit of the third run.
MatchAtLazy(s, i) ==
    LET e1 == DigitRunEnd(s, i)
        e2 == DigitRunEnd(s, e1 + 1)
    IN  IF e1 > i /\ e1 <= Len(s) /\ s[e1] = "."
           /\ e2 > e1 + 1 /\ e2 <= Len(s) /\ s[e2] = "."
           /\ DigitRunEnd(s, e2 + 1) > e2 + 1
        THEN e2 + 2
        ELSE 0

\* The regular expression \d+\.\d+\.\d+ tried at start index i: the index
\* after the match, or 0 when it does not match there.  Each \d+ is greedy;
\* giving digits back never helps because the next pattern item is a dot.
MatchAt(s, i) ==
    LET e1 == DigitRunEnd(s, i)
        e2 == DigitRunEnd(s, e1 + 1)
        e3 == DigitRunEnd(s, e2 + 1)
    IN  IF e1 > i /\ e1 <= Len(s) /\ s[e1] = "."
           /\ e2 > e1 + 1 /\ e2 <= Len(s) /\ s[e2] = "."
           /\ e3 > e2 + 1
        THEN e3
        ELSE 0

NoMatch == [found |-> FALSE, core |-> <<>>]

\* re.search scans start positions left to right and returns the first match.
RECURSIVE SearchFrom(_, _)
SearchFrom(s, i) ==
    IF i > Len(s) THEN NoMatch
    ELSE IF MatchAt(s, i) # 0
         THEN [found |-> TRUE, core |-> SubSeq(s, i, MatchAt(s, i) - 1)]
         ELSE SearchFrom(s, i + 1)

extract_numeric_version(s) == SearchFrom(s, 1)

\* The outcome of equal_versions(version1, version2): ChefError raised by
\* extract_numeric_version for either argument, or the boolean returned.
VersionError == [raised |-> TRUE, value |-> FALSE]
Returned(b) == [raised |-> FALSE, value |-> b]

\* A comparison of the whole strings, with no extraction.
equal_versions_raw(version1, version2) == Returned(version1 = version2)

equal_versions(version1, version2) ==
    LET m1 == extract_numeric_version(version1)
        m2 == extract_numeric_version(version2)
    IN  IF ~m1.found \/ ~m2.found THEN VersionError
        ELSE Returned(m1.core = m2.core)

(***************************************************************************)
(* The host: what the subprocesses read and change.                        *)
(***************************************************************************)

Str123 == <<"1", ".", "2", ".", "3">>
Str124b == <<"1", ".", "2", ".", "4", "-", "1">>
ChefPrefix == <<"C", "h", "e", "f", ":", " ">>

\* What 'chef-client --version' prints once the install script has installed
\* the version it was given.
VersionOutput(version) == ChefPrefix \o version

NotInstalled == [present |-> FALSE, version |-> <<>>]
Installed(output) == [present |-> TRUE, version |-> output]

\* Hosts the tasks may find: no agent, an agent printing nothing, an agent
\* at either version, an agent whose output holds no x.y.z.
InitialInstalled ==
    {NotInstalled, Installed(<<>>), Installed(VersionOutput(Str123)),
     Installed(ChefPrefix \o <<"1", ".", "2", ".", "4">>),
     Installed(<<"a", "b", "c">>)}

DesiredVersions == {Str123, Str124b}
Urls == {"https://chef-a", "https://chef-b"}
Environments == {"_default"}
ValidatorNames == {"chef-validator"}
Validations == {"pem-1"}

Directories == <<"/etc/chef", "/var/chef", "/var/log/chef">>
DirectorySet == {Directories[i] : i \in 1..Len(Directories)}

NoFile == "absent"
NoConf == [validation_client_name |-> "absent", chef_server_url |-> "absent",
           environment |-> "absent"]
StaleConf == [validation_client_name |-> "old-validator",
              chef_server_url |-> "https://chef-old", environment |-> "old"]

\* The template filled with the server URL and the environment exchanged.
ClientRbExchanged(chef_validator_name, server_url, server_environment) ==
    [validation_client_name |-> chef_validator_name,
     chef_server_url |-> server_environment,
     environment |-> server_url]

\* The text written to /etc/chef/client.rb, as the three values it formats in.
ClientRb(chef_validator_name, server_url, server_environment) ==
    [validation_client_name |-> chef_validator_name,
     chef_server_url |-> server_url,
     environment |-> server_environment]

(***************************************************************************)
(* Task invocations: the keyword arguments a caller may pass.              *)
(***************************************************************************)

Tasks == {"install", "start", "stop", "restart", "uninstall"}

required_fields ==
    {"chef_version", "chef_server_url", "chef_environment",
     "chef_validator_name", "chef_validation"}

\* The task bodies with restart running the start runlist first.
RunlistParamsStartFirst(t) ==
    CASE t = "install" -> <<"chef_install_runlist">>
      [] t = "start" -> <<"chef_start_runlist">>
      [] t = "stop" -> <<"chef_stop_runlist">>
      [] t = "restart" -> <<"chef_start_runlist", "chef_stop_runlist">>
      [] t = "uninstall" -> <<"chef_uninstall_runlist">>

\* The runlist parameters of each task function, in the order the task body
\* passes them to run_chef.
RunlistParams(t) ==
    CASE t = "install" -> <<"chef_install_runlist">>
      [] t = "start" -> <<"chef_start_runlist">>
      [] t = "stop" -> <<"chef_stop_runlist">>
      [] t = "restart" -> <<"chef_stop_runlist", "chef_start_runlist">>
      [] t = "uninstall" -> <<"chef_uninstall_runlist">>

\* The named (positional-or-keyword) parameters of each task function.
TaskParams(t) ==
    {RunlistParams(t)[i] : i \in 1..Len(RunlistParams(t))} \cup {"chef_attributes"}

\* chef_attributes values: a native mapping, or a string holding JSON text.
AttrDict == [kind |-> "dict", text |-> <<>>]
AttrStr(text) == [kind |-> "str", text |-> text]
AttributeValues ==
    {AttrDict, AttrStr(<<>>), AttrStr(<<"{", "}">>), AttrStr(<<"{">>)}

\* json.loads on the texts above: an empty object or an integer literal
\* parses, anything else raises ValueError.
JsonLoadsOk(text) ==
    \/ text = <<"{", "}">>
    \/ (Len(text) > 0 /\ \A i \in 1..Len(text) : text[i] \in Digits)

\* The same check made on mappings instead of strings.
AttributesRejectedDict(attributes) ==
    /\ attributes.kind = "dict"
    /\ ~JsonLoadsOk(IF attributes.text = <<>> THEN <<"{", "}">> ELSE attributes.text)

\* isinstance(attributes, str) and json.loads(attributes or "{}") raising.
AttributesRejected(attributes) ==
    /\ attributes.kind = "str"
    /\ ~JsonLoadsOk(IF attributes.text = <<>> THEN <<"{", "}">> ELSE attributes.text)

DefaultValues ==
    [chef_version |-> Str123, chef_server_url |-> "https://chef-a",
     chef_environment |-> "_default", chef_validator_name |-> "chef-validator",
     chef_validation |-> "pem-1",
     chef_install_runlist |-> "recipe[install]",
     chef_start_runlist |-> "recipe[start]",
     chef_stop_runlist |-> "recipe[stop]",
     chef_uninstall_runlist |-> "recipe[uninstall]",
     chef_attributes |-> AttrDict]

\* Full valuations of every keyword; a call passes the keys it supplies.
KeywordValues ==
    {[DefaultValues EXCEPT !.chef_version = ver, !.chef_server_url = url,
                           !.chef_environment = env,
                           !.chef_validator_name = vn,
                           !.chef_validation = pemv,
                           !.chef_attributes = attr] :
        ver \in DesiredVersions, url \in Urls, env \in Environments,
        vn \in ValidatorNames, pemv \in Validations, attr \in AttributeValues}

(***************************************************************************)
(* State.                                                                  *)
(***************************************************************************)

VARIABLES
    installed,  \* the agent on the host: absent, or its --version output
    hasApt,     \* whether 'which apt-get' finds apt-get
    dirs,       \* which of the agent directories exist
    pem,        \* contents of /etc/chef/validation.pem
    rb,         \* contents of /etc/chef/client.rb
    pc,         \* position of the running task
    task,       \* the task being executed
    kwargs,     \* its keyword arguments
    dirIdx,     \* loop position in 'for directory in ...'
    pending,    \* runlist parameters still to be passed to run_chef
    cmds,       \* subprocesses executed by this task so far, in order
    runs,       \* chef-client runs of this task: runlist parameter and outcome
    setup,      \* install_chef of this task: "pending", "ok", "failed"
    result,     \* what the task returned or raised
    named,      \* the fields the missing-field message names
    failedCmd,  \* the sudo() command whose non-zero exit ended the task
    v1, v2,     \* arguments of a stand-alone equal_versions call
    verPc,      \* "call" before that call, "returned" after it
    verResult   \* its outcome

hostVars == <<installed, hasApt, dirs, pem, rb>>
taskVars == <<pc, task, kwargs, dirIdx, pending, cmds, runs, setup, result, named, failedCmd>>
verVars == <<v1, v2, verPc, verResult>>
vars == <<hostVars, taskVars, verVars>>

NoKwargs == [k \in {} |-> "none"]

IdleTask ==
    /\ pc = "idle"
    /\ task = "none"
    /\ kwargs = NoKwargs
    /\ dirIdx = 0
    /\ pending = <<>>
    /\ cmds = <<>>
    /\ runs = <<>>
    /\ setup = "pending"
    /\ result = "none"
    /\ named = {}
    /\ failedCmd = "none"

InitialHost ==
    /\ installed \in InitialInstalled
    /\ hasApt \in BOOLEAN
    /\ dirs \in SUBSET DirectorySet
    /\ \E files \in {<<NoFile, NoConf>>, <<"pem-old", StaleConf>>} :
        pem = files[1] /\ rb = files[2]

Init ==
    /\ InitialHost
    /\ IdleTask
    /\ v1 = <<>> /\ v2 = <<>> /\ verPc = "unused" /\ verResult = Returned(FALSE)

(***************************************************************************)
(* Helpers shared by the steps.                                            *)
(***************************************************************************)

\* The task ends by raising `kind`; `cmd` is the sudo() command that failed,
\* "none" when the error did not come from sudo().
Raise(kind, cmd, duringSetup) ==
    /\ pc' = "done"
    /\ result' = kind
    /\ failedCmd' = cmd
    /\ setup' = IF duringSetup THEN "failed" ELSE setup

\* Exit statuses a sudo command can end with: a command that is not on the
\* host cannot succeed.
SudoOutcomes(binaryPresent) == IF binaryPresent THEN BOOLEAN ELSE {FALSE}

(***************************************************************************)
(* set_up_chef_client.wrapper: the required-field check.                   *)
(***************************************************************************)

\* A check that reports only one of the missing fields.
missing_fields_first(kw) ==
    LET missing == required_fields \ DOMAIN kw
    IN  IF missing = {} THEN {} ELSE {CHOOSE f \in missing : TRUE}

missing_fields(kw) == required_fields \ DOMAIN kw

\* A worker takes a task from the queue and enters wrapper(**kwargs).
Wrapper ==
    /\ pc = "idle"
    /\ \E t \in Tasks, vals \in KeywordValues :
       \E supplied \in SUBSET (required_fields \cup TaskParams(t)) :
        \* the wrapper reads no value before it raises: one valuation suffices
        /\ (required_fields \subseteq supplied \/ vals = DefaultValues)
        /\ task' = t
        /\ kwargs' = [k \in supplied |-> vals[k]]
        /\ IF missing_fields(kwargs') # {}
           THEN /\ named' = missing_fields(kwargs')
                /\ Raise("ChefError", "none", FALSE)
           ELSE /\ pc' = "probe"
                /\ UNCHANGED <<named, result, failedCmd, setup>>
    /\ UNCHANGED <<hostVars, dirIdx, pending, cmds, runs, verVars>>

(***************************************************************************)
(* install_chef.                                                           *)
(***************************************************************************)

\* The branch install_chef takes on current_version with the condition on
\* equal_versions negated.
ReconcileInverted(current, chef_version) ==
    IF ~current.present \/ current.version = <<>> THEN "install"
    ELSE LET eq == equal_versions(current.version, chef_version)
         IN  IF eq.raised THEN "raise"
             ELSE IF eq.value THEN "uninstall" ELSE "return"

\* The branch install_chef takes on current_version: "install" when it is
\* None or empty ('if current_version:' is false), "return" when the versions
\* are equal, "uninstall" when they differ, "raise" when equal_versions raises.
Reconcile(current, chef_version) ==
    IF ~current.present \/ current.version = <<>> THEN "install"
    ELSE LET eq == equal_versions(current.version, chef_version)
         IN  IF eq.raised THEN "raise"
             ELSE IF eq.value THEN "return" ELSE "uninstall"

\* current_chef_version() and the branch of install_chef on its value.
Probe ==
    /\ pc = "probe"
    /\ IF ~installed.present
       THEN \* 'which chef-client' exits non-zero: current_version is None
            /\ cmds' = cmds \o <<"which chef-client">>
            /\ pc' = "install"
            /\ UNCHANGED <<result, failedCmd, setup>>
       ELSE \E versionOk \in BOOLEAN :
            /\ cmds' = cmds \o <<"which chef-client", "chef-client --version">>
            /\ IF ~versionOk
               THEN \* check_output raises on a non-zero exit
                    Raise("CalledProcessError", "none", TRUE)
               ELSE LET branch == Reconcile(installed, kwargs.chef_version)
                    IN  IF branch = "raise"
                        THEN Raise("ChefError", "none", TRUE)
                        ELSE IF branch = "return"
                        THEN \* no need to do anything
                             /\ pc' = "func"
                             /\ setup' = "ok"
                             /\ UNCHANGED <<result, failedCmd>>
                        ELSE /\ pc' = branch
                             /\ UNCHANGED <<result, failedCmd, setup>>
    /\ UNCHANGED <<hostVars, task, kwargs, dirIdx, pending, runs, named, verVars>>

\* apt_platform(): the value returned for the exit status of 'which apt-get'.
apt_platform(which_exitcode) == which_exitcode # 0

WhichExitCode(found) == IF found THEN 0 ELSE 1

\* uninstall_chef().
UninstallChef ==
    /\ pc = "uninstall"
    /\ IF apt_platform(WhichExitCode(hasApt))
       THEN \E ok \in SudoOutcomes(hasApt) :
            /\ cmds' = cmds \o <<"which apt-get", "apt-get remove chef -y">>
            /\ IF ok
               THEN /\ installed' = NotInstalled
                    /\ pc' = "install"
                    /\ UNCHANGED <<result, failedCmd, setup>>
               ELSE /\ Raise("ChefError", "apt-get remove chef -y", TRUE)
                    /\ UNCHANGED installed
       ELSE \* "Chef uninstall is unimplemented for this platform"
            /\ cmds' = cmds \o <<"which apt-get">>
            /\ pc' = "install"
            /\ UNCHANGED <<installed, result, failedCmd, setup>>
    /\ UNCHANGED <<hasApt, dirs, pem, rb, task, kwargs, dirIdx, pending, runs, named, verVars>>

\* Fetch the install script and run it under sudo with '-v chef_version'.
InstallScript ==
    /\ pc = "install"
    /\ \E outcome \in {"fetch failed", "script failed", "ok"} :
        IF outcome = "fetch failed"
        THEN /\ Raise("ChefError", "none", TRUE)
             /\ UNCHANGED <<cmds, installed, dirIdx>>
        ELSE /\ cmds' = cmds \o <<"install.sh">>
             /\ IF outcome = "script failed"
                THEN /\ Raise("ChefError", "install.sh", TRUE)
                     /\ UNCHANGED <<installed, dirIdx>>
                ELSE /\ installed' = Installed(VersionOutput(kwargs.chef_version))
                     /\ pc' = "mkdir"
                     /\ dirIdx' = 1
                     /\ UNCHANGED <<result, failedCmd, setup>>
    /\ UNCHANGED <<hasApt, dirs, pem, rb, task, kwargs, pending, runs, named, verVars>>

\* One iteration of 'for directory in ...: sudo("mkdir", directory)'.
\* mkdir without -p exits non-zero on a directory that exists.
Mkdir ==
    /\ pc = "mkdir"
    /\ LET directory == Directories[dirIdx]
       IN  \E ok \in (IF directory \in dirs THEN {FALSE} ELSE BOOLEAN) :
            /\ cmds' = cmds \o <<"mkdir">>
            /\ IF ok
               THEN /\ dirs' = dirs \cup {directory}
                    /\ IF dirIdx < Len(Directories)
                       THEN dirIdx' = dirIdx + 1 /\ pc' = pc
                       ELSE dirIdx' = 0 /\ pc' = "write_pem"
                    /\ UNCHANGED <<result, failedCmd, setup>>
               ELSE /\ Raise("SudoError", "mkdir", TRUE)
                    /\ UNCHANGED <<dirs, dirIdx>>
    /\ UNCHANGED <<installed, hasApt, pem, rb, task, kwargs, pending, runs, named, verVars>>

\* sudo_write_file('/etc/chef/validation.pem', chef_validation).
WriteValidationPem ==
    /\ pc = "write_pem"
    /\ \E ok \in BOOLEAN :
        /\ cmds' = cmds \o <<"mv validation.pem">>
        /\ IF ok
           THEN /\ pem' = kwargs.chef_validation
                /\ pc' = "write_rb"
                /\ UNCHANGED <<result, failedCmd, setup>>
           ELSE /\ Raise("SudoError", "mv validation.pem", TRUE)
                /\ UNCHANGED pem
    /\ UNCHANGED <<installed, hasApt, dirs, rb, task, kwargs, dirIdx, pending, runs, named, verVars>>

\* sudo_write_file('/etc/chef/client.rb', ...) and the return of install_chef.
WriteClientRb ==
    /\ pc = "write_rb"
    /\ \E ok \in BOOLEAN :
        /\ cmds' = cmds \o <<"mv client.rb">>
        /\ IF ok
           THEN /\ rb' = ClientRb(kwargs.chef_validator_name, kwargs.chef_server_url,
                                  kwargs.chef_environment)
                /\ pc' = "func"
                /\ setup' = "ok"
                /\ UNCHANGED <<result, failedCmd>>
           ELSE /\ Raise("SudoError", "mv client.rb", TRUE)
                /\ UNCHANGED rb
    /\ UNCHANGED <<installed, hasApt, dirs, pem, task, kwargs, dirIdx, pending, runs, named, verVars>>

(***************************************************************************)
(* The task functions and run_chef.                                        *)
(***************************************************************************)

\* 'return func(*args, **kwargs)': Python binds the task's named parameters
\* and raises TypeError when one of them was not passed.
CallFunc ==
    /\ pc = "func"
    /\ IF TaskParams(task) \subseteq DOMAIN kwargs
       THEN /\ pending' = RunlistParams(task)
            /\ pc' = "run"
            /\ UNCHANGED <<result, failedCmd, setup>>
       ELSE /\ Raise("TypeError", "none", FALSE)
            /\ UNCHANGED pending
    /\ UNCHANGED <<hostVars, task, kwargs, dirIdx, cmds, runs, named, verVars>>

\* One call run_chef(runlist, chef_attributes) of the task body.
RunChef ==
    /\ pc = "run"
    /\ LET param == Head(pending)
       IN  IF AttributesRejected(kwargs.chef_attributes)
           THEN /\ Raise("ChefError", "none", FALSE)
                /\ UNCHANGED <<cmds, runs, pending>>
           ELSE \E ok \in BOOLEAN :
                /\ cmds' = cmds \o <<"chef-client -o">>
                /\ runs' = Append(runs, [param |-> param, runlist |-> kwargs[param],
                                         ok |-> ok])
                /\ IF ~ok
                   THEN /\ Raise("ChefError", "chef-client -o", FALSE)
                        /\ UNCHANGED pending
                   ELSE /\ pending' = Tail(pending)
                        /\ IF Tail(pending) = <<>>
                           THEN /\ pc' = "done"
                                /\ result' = "ok"
                           ELSE /\ pc' = pc
                                /\ result' = result
                        /\ UNCHANGED <<failedCmd, setup>>
    /\ UNCHANGED <<hostVars, task, kwargs, dirIdx, named, verVars>>

\* The result reaches the task queue; the worker is free for the next task.
Return ==
    /\ pc = "done"
    /\ pc' = "idle"
    /\ task' = "none"
    /\ kwargs' = NoKwargs
    /\ dirIdx' = 0
    /\ pending' = <<>>
    /\ cmds' = <<>>
    /\ runs' = <<>>
    /\ setup' = "pending"
    /\ result' = "none"
    /\ named' = {}
    /\ failedCmd' = "none"
    /\ UNCHANGED <<hostVars, verVars>>

Next ==
    \/ Wrapper
    \/ Probe
    \/ UninstallChef
    \/ InstallScript
    \/ Mkdir
    \/ WriteValidationPem
    \/ WriteClientRb
    \/ CallFunc
    \/ RunChef
    \/ Return

Spec == Init /\ [][Next]_vars

(***************************************************************************)
(* Inputs of the version comparison, drawn from bounded sets.              *)
(***************************************************************************)

MaxVerLen == 6

VerAlphabet == {"1", ".", "a"}

ShortestCore == <<"1", ".", "1", ".", "1">>

StringsUpTo(n) == UNION {[1..k -> VerAlphabet] : k \in 0..n}

\* x.y.z stated directly: digits, a dot, digits, a dot, digits, nothing else.
IsCore(c) ==
    LET dots == {k \in 1..Len(c) : c[k] = "."}
    IN  /\ Cardinality(dots) = 2
        /\ \A k \in (1..Len(c)) \ dots : c[k] \in Digits
        /\ \A k \in dots : 1 < k /\ k < Len(c) /\ k + 1 \notin dots

CoreSpans(s) ==
    {sp \in (1..Len(s)) \X (1..Len(s)) : sp[1] <= sp[2] /\ IsCore(SubSeq(s, sp[1], sp[2]))}

HasCore(s) == CoreSpans(s) # {}

\* The leftmost x.y.z substring, taken as long as it goes.
FirstCore(s) ==
    LET spans == CoreSpans(s)
        first == CHOOSE sp \in spans :
                     \A other \in spans :
                         \/ sp[1] < other[1]
                         \/ (sp[1] = other[1] /\ sp[2] >= other[2])
    IN  SubSeq(s, first[1], first[2])

\* Text that may follow a string: nothing, or a separator and one more
\* x.y.z (output that prints two versions).
Tails == {<<>>, <<"a">> \o ShortestCore}

\* First arguments: every string up to MaxVerLen, alone or before a tail.
FirstArguments == {left \o tail : left \in StringsUpTo(MaxVerLen), tail \in Tails}

\* Second arguments: the strings up to MaxVerLen that hold an x.y.z, and the
\* shortest strings that hold none.
SecondArguments ==
    {s \in StringsUpTo(MaxVerLen) : Len(s) <= 2 \/ HasCore(s)}

VerInit ==
    /\ v2 \in SecondArguments
    /\ v1 \in FirstArguments
    /\ verPc = "call"
    /\ verResult = Returned(FALSE)
    /\ installed = NotInstalled /\ hasApt = FALSE /\ dirs = {}
    /\ pem = NoFile /\ rb = NoConf
    /\ IdleTask

\* One call equal_versions(v1, v2).
Compare ==
    /\ verPc = "call"
    /\ verPc' = "returned"
    /\ verResult' = equal_versions(v1, v2)
    /\ UNCHANGED <<v1, v2, hostVars, taskVars>>

VerNext == Compare

SpecVer == VerInit /\ [][VerNext]_vars

(***************************************************************************)
(* Properties.                                                             *)
(***************************************************************************)

Ran(cmd) == \E i \in 1..Len(cmds) : cmds[i] = cmd

AllSupplied == required_fields \cup TaskParams(task) \subseteq DOMAIN kwargs

\* s holds the x.y.z string c with no digit before it and none right after.
HoldsCleanly(s, c) ==
    \E i \in 1..Len(s) :
        /\ i + Len(c) - 1 <= Len(s)
        /\ SubSeq(s, i, i + Len(c) - 1) = c
        /\ \A k \in 1..(i - 1) : s[k] \notin Digits
        /\ (i + Len(c) <= Len(s) => s[i + Len(c)] \notin Digits)

\* s holds the x.y.z string c as a version of its own: neither a digit nor
\* a dot touches it on either side.
HoldsApart(s, c) ==
    \E i \in 1..Len(s) :
        /\ i + Len(c) - 1 <= Len(s)
        /\ SubSeq(s, i, i + Len(c) - 1) = c
        /\ (i > 1 => s[i - 1] \notin Digits \cup {"."})
        /\ (i + Len(c) <= Len(s) => s[i + Len(c)] \notin Digits \cup {"."})

\* C1: a task whose keyword arguments lack a setup field ends with ChefError
\* before any subprocess has run, and the error names exactly the missing
\* setup fields: all of them and none that was supplied.
C1_MissingSetupFieldsFailFirst ==
    (pc # "idle" /\ ~(required_fields \subseteq DOMAIN kwargs)) =>
        /\ pc = "done"
        /\ result = "ChefError"
        /\ cmds = <<>>
        /\ runs = <<>>
        /\ named = {f \in {"chef_version", "chef_server_url", "chef_environment",
                           "chef_validator_name", "chef_validation"} :
                        f \notin DOMAIN kwargs}

C1_Witness ==
    /\ pc = "done"
    /\ task = "restart"
    /\ result = "ChefError"
    /\ named = {"chef_version", "chef_validation"}
    /\ cmds = <<>>

\* C2: a task given all five setup fields but not its runlist parameter or
\* its chef_attributes fails, and its failure (here: one that is not a
\* failure of the setup step itself) comes before any subprocess has run.
C2_MissingTaskParamFailsFirst ==
    (/\ pc = "done"
     /\ required_fields \subseteq DOMAIN kwargs
     /\ ~(TaskParams(task) \subseteq DOMAIN kwargs)
     /\ setup # "failed") =>
        /\ result # "ok"
        /\ cmds = <<>>

\* C3 as claimed: a task whose chef_attributes is a string that is not valid
\* JSON raises its ChefError before any sudo command has run.
C3_BadJsonBeforeAnySudo ==
    (/\ pc = "done"
     /\ AllSupplied
     /\ kwargs.chef_attributes = AttrStr(<<"{">>)
     /\ setup = "ok") =>
        /\ result = "ChefError"
        /\ cmds = <<>>

\* C3 as the code has it: such a task never runs chef-client and, once
\* install_chef has returned, ends with a ChefError that no command caused;
\* install_chef has run its sudo commands by then.
C3_BadJsonBeforeAgentRun ==
    (/\ pc # "idle"
     /\ AllSupplied
     /\ kwargs.chef_attributes = AttrStr(<<"{">>)) =>
        /\ runs = <<>>
        /\ ~Ran("chef-client -o")
        /\ result # "ok"
        /\ pc \notin {"probe"} => Ran("which chef-client")
        /\ (pc = "done" /\ setup = "ok") =>
               (result = "ChefError" /\ failedCmd = "none" /\ cmds # <<>>)

C3_Witness ==
    /\ pc = "done"
    /\ AllSupplied
    /\ kwargs.chef_attributes = AttrStr(<<"{">>)
    /\ setup = "ok"
    /\ result = "ChefError"
    /\ Ran("install.sh")
    /\ runs = <<>>

\* The installed agent prints a version whose x.y.z differs from the desired one.
DifferentNumericVersion ==
    /\ installed.present
    /\ HasCore(installed.version)
    /\ HasCore(kwargs.chef_version)
    /\ FirstCore(installed.version) # FirstCore(kwargs.chef_version)

\* The installed agent prints a version whose x.y.z equals the desired one.
SameNumericVersion ==
    /\ installed.present
    /\ HasCore(installed.version)
    /\ HasCore(kwargs.chef_version)
    /\ FirstCore(installed.version) = FirstCore(kwargs.chef_version)

C4_UninstallIffDifferent ==
    (pc = "probe" /\ result' # "CalledProcessError") =>
        (pc' = "uninstall" <=> DifferentNumericVersion)

C4_FreshInstallDirect ==
    (pc = "probe" /\ ~installed.present) => pc' = "install"

C4_UninstallCompletesFirst ==
    /\ pc' = "uninstall" => pc = "probe"
    /\ pc = "uninstall" =>
           /\ ~Ran("install.sh")
           /\ pc' \in {"install", "done"}
           /\ pc' = "done" => result' = "ChefError"
    /\ (Ran("install.sh")' /\ ~Ran("install.sh")) => pc = "install"

C4_NoUninstallWithoutAgent ==
    (Len(cmds) >= 2 /\ cmds[2] # "chef-client --version") => ~Ran("which apt-get")

\* C4: install_chef enters uninstall_chef exactly when an agent is installed
\* and its x.y.z differs from the desired one; with no agent it goes straight
\* to the install script and never uninstalls; uninstall_chef has returned
\* before the install script runs.
C4_UninstallDecision ==
    /\ [][C4_UninstallIffDifferent /\ C4_FreshInstallDirect
          /\ C4_UninstallCompletesFirst]_vars
    /\ [](C4_NoUninstallWithoutAgent /\ (pc = "uninstall" => setup = "pending"))

C4_Witness ==
    /\ pc = "mkdir"
    /\ cmds = <<"which chef-client", "chef-client --version", "which apt-get",
                "install.sh">>

\* C5: uninstall_chef runs 'apt-get remove chef -y' exactly when
\* 'which apt-get' succeeds, and without apt-get it returns without error.
C5_RemoveIffAptFound ==
    Ran("which apt-get") =>
        /\ Ran("apt-get remove chef -y") <=> hasApt
        /\ ~hasApt => failedCmd # "apt-get remove chef -y"

\* C6 as claimed: two strings that hold the same x.y.z are equal whatever
\* text surrounds it: when v2 is an x.y.z string and v1 holds it as a version
\* of its own, equal_versions returns true.
C6_AnySurroundingText ==
    (verPc = "returned" /\ IsCore(v2) /\ HoldsApart(v1, v2)) =>
        verResult = Returned(TRUE)

\* C6 as the code has it: equal_versions raises ChefError exactly when one of
\* the strings holds no x.y.z; otherwise it returns whether the leftmost
\* x.y.z substrings (each taken as long as it goes) are equal; so a string
\* that holds an x.y.z with no digit before it and none right after it is
\* equal to that x.y.z.
C6_LeftmostCoresCompared ==
    verPc = "returned" =>
        /\ verResult.raised <=> (~HasCore(v1) \/ ~HasCore(v2))
        /\ ~verResult.raised => (verResult.value <=> FirstCore(v1) = FirstCore(v2))
        /\ (IsCore(v2) /\ HoldsCleanly(v1, v2)) => verResult = Returned(TRUE)

C6_Witness ==
    /\ verPc = "returned"
    /\ v1 = <<"a", "1", ".", "1", ".", "1", "a", "1", ".", "1", ".", "1">>
    /\ v2 = <<"1", ".", "1", ".", "1">>
    /\ verResult = Returned(TRUE)

\* The runlist parameters each task is to run, in order.
ExpectedRuns ==
    CASE task = "install" -> <<"chef_install_runlist">>
      [] task = "start" -> <<"chef_start_runlist">>
      [] task = "stop" -> <<"chef_stop_runlist">>
      [] task = "uninstall" -> <<"chef_uninstall_runlist">>
      [] task = "restart" -> <<"chef_stop_runlist", "chef_start_runlist">>
      [] OTHER -> <<>>

C8_SudoFailuresWrapped ==
    (pc = "done" /\ failedCmd # "none") => result = "ChefError"

C9_NoOpStep ==
    (pc = "probe" /\ SameNumericVersion /\ result' # "CalledProcessError") =>
        /\ pc' = "func"
        /\ setup' = "ok"
        /\ result' = "none"
        /\ cmds' = <<"which chef-client", "chef-client --version">>
        /\ UNCHANGED hostVars

\* C9: with an agent installed whose x.y.z equals the desired one,
\* install_chef returns successfully having run only the two probes and
\* having changed nothing on the host.
C9_SameVersionNoOp == [][C9_NoOpStep]_vars

C9_Witness ==
    /\ pc = "func"
    /\ setup = "ok"
    /\ cmds = <<"which chef-client", "chef-client --version">>
    /\ installed = Installed(VersionOutput(Str123))
    /\ kwargs.chef_version = Str123
    /\ rb = StaleConf

\* The files on disk are the ones this task's arguments describe.
FilesFromThisTask ==
    /\ pem = kwargs.chef_validation
    /\ rb.chef_server_url = kwargs.chef_server_url
    /\ rb.environment = kwargs.chef_environment
    /\ rb.validation_client_name = kwargs.chef_validator_name

\* C10 as claimed: whenever a task runs chef-client, validation.pem and
\* client.rb are the ones written from that task's arguments.
C10_FilesCurrentAtEveryRun ==
    runs # <<>> => FilesFromThisTask

\* C10 as the code has it: whenever a task runs chef-client after its own
\* setup ran the install script, validation.pem and client.rb are the ones
\* written from that task's arguments.
C10_FilesCurrentAfterInstall ==
    (runs # <<>> /\ Ran("install.sh")) => FilesFromThisTask

C10_Witness ==
    /\ runs # <<>>
    /\ Ran("install.sh")
    /\ Ran("which apt-get")
    /\ rb.chef_server_url = "https://chef-b"
    /\ pem = "pem-1"

====
